---------------------------- MODULE Spec2Model ----------------------------
(***************************************************************************)
(* A model of the sitemap URL tester:                                      *)
(*   - checker.py : the concurrent URL checker (_run, _check_one,          *)
(*                  _do_request and the pure helpers they call);           *)
(*   - sitemap.py : the recursive sitemap resolver (parse_sitemap);        *)
(*   - run_store.py : the runs kept on disk (save_run, load_run,           *)
(*                  delete_run).                                           *)
(* Strings are TLA+ strings; str(), lower(), "in", slicing, join and split *)
(* are computed on them character by character.                            *)
(***************************************************************************)
EXTENDS Integers, Sequences, FiniteSets, TLC

(***************************************************************************)
(* Bounds of the model.                                                    *)
(***************************************************************************)
\* the longest input URL list of a concurrent run
MaxUrls == 2
\* the largest concurrency limit
MaxConc == 2
\* the largest retry count (the dashboard offers 0..2)
MaxRetries == 1
\* the largest retry count of a run whose requests and sleeps are logged
WireRetries == 2
\* the longest redirect history of a response
MaxRedirects == 2
\* the number of distinct sitemap URLs of a chain site
NumSitemaps == 4
\* the number of distinct sitemap URLs of a wide site
WideSitemaps == 2
\* the most <sitemap> entries of an index of a wide site
MaxChildren == 2
\* the number of clock readings that fall into one second
TicksPerSecond == 2
\* the last clock reading of a session with the run store
MaxTicks == 3
\* the most calls of save_run and delete_run in a session
MaxCalls == 3

(***************************************************************************)
(* Strings.                                                                *)
(***************************************************************************)
Min(a, b) == IF a < b THEN a ELSE b

Digit(d) ==
  CASE d = 0 -> "0" [] d = 1 -> "1" [] d = 2 -> "2" [] d = 3 -> "3"
    [] d = 4 -> "4" [] d = 5 -> "5" [] d = 6 -> "6" [] d = 7 -> "7"
    [] d = 8 -> "8" [] d = 9 -> "9"

DigitChars == {Digit(d) : d \in 0..9}

RECURSIVE Str(_)
\* Python's str() of a non-negative int
Str(n) == IF n < 10 THEN Digit(n) ELSE Str(n \div 10) \o Digit(n % 10)

LowerChar(c) ==
  CASE c = "A" -> "a" [] c = "B" -> "b" [] c = "C" -> "c" [] c = "D" -> "d"
    [] c = "E" -> "e" [] c = "F" -> "f" [] c = "G" -> "g" [] c = "H" -> "h"
    [] c = "I" -> "i" [] c = "J" -> "j" [] c = "K" -> "k" [] c = "L" -> "l"
    [] c = "M" -> "m" [] c = "N" -> "n" [] c = "O" -> "o" [] c = "P" -> "p"
    [] c = "Q" -> "q" [] c = "R" -> "r" [] c = "S" -> "s" [] c = "T" -> "t"
    [] c = "U" -> "u" [] c = "V" -> "v" [] c = "W" -> "w" [] c = "X" -> "x"
    [] c = "Y" -> "y" [] c = "Z" -> "z" [] OTHER -> c

RECURSIVE Lower(_)
\* Python's str.lower(), by halves so that long bodies stay shallow
Lower(s) ==
  IF Len(s) = 0 THEN ""
  ELSE IF Len(s) = 1 THEN LowerChar(s)
  ELSE LET h == Len(s) \div 2
       IN  Lower(SubSeq(s, 1, h)) \o Lower(SubSeq(s, h + 1, Len(s)))

\* Python's  pat in s
Contains(s, pat) ==
  \E i \in 1..(Len(s) - Len(pat) + 1) : SubSeq(s, i, i + Len(pat) - 1) = pat

\* Python's  s[:n]
Prefix(s, n) == SubSeq(s, 1, Min(n, Len(s)))

RECURSIVE Join(_, _)
\* Python's  sep.join(parts)
Join(parts, sep) ==
  IF Len(parts) = 0 THEN ""
  ELSE IF Len(parts) = 1 THEN parts[1]
  ELSE parts[1] \o sep \o Join(Tail(parts), sep)

RECURSIVE Repeat(_, _)
\* Python's  s * n
Repeat(s, n) ==
  IF n = 0 THEN ""
  ELSE IF n % 2 = 1 THEN s \o Repeat(s, n - 1)
  ELSE LET half == Repeat(s, n \div 2) IN half \o half


(***************************************************************************)
(* checker.py: constants and pure helpers.                                 *)
(***************************************************************************)
SOFT_404_PATTERNS ==
  { "page not found", "404 not found", "404 error", "not found</title>",
    "<title>404", "does not exist", "no longer available",
    "page doesn't exist", "page does not exist", "we couldn't find",
    "we can't find" }

\* the body prefix, in characters, that soft-404 detection reads
SnippetLen == 8000

\* the labels of the alternate identity
SafariLabel == "Safari macOS"
SafariRetryLabel == "Safari macOS (retry)"

\* the label _run derives for the primary identity: a preset's name or "Custom"
UaLabels == {"Chrome macOS (default)", "Custom"}

\* CheckResult(input_url=url): every other field at its default
CheckResult(url) ==
  [ input_url           |-> url,
    first_status_code   |-> "",
    final_status_code   |-> "",
    final_url           |-> "",
    response_time_ms    |-> 0,
    redirect_count      |-> 0,
    redirect_chain      |-> "",
    method_used         |-> "",
    user_agent_used     |-> "",
    soft_404            |-> FALSE,
    error               |-> "",
    alt_status_code     |-> "",
    alt_user_agent_used |-> "" ]

\* CheckResult.to_dict: the same thirteen fields, by name
to_dict(r) ==
  [ input_url           |-> r.input_url,
    first_status_code   |-> r.first_status_code,
    final_status_code   |-> r.final_status_code,
    final_url           |-> r.final_url,
    response_time_ms    |-> r.response_time_ms,
    redirect_count      |-> r.redirect_count,
    redirect_chain      |-> r.redirect_chain,
    method_used         |-> r.method_used,
    user_agent_used     |-> r.user_agent_used,
    soft_404            |-> r.soft_404,
    error               |-> r.error,
    alt_status_code     |-> r.alt_status_code,
    alt_user_agent_used |-> r.alt_user_agent_used ]

\* the cascade with the generic label left out: the bare type name
classify_error_bare(exc) ==
  LET name == Lower(exc.name)
      msg  == Lower(exc.msg)
  IN  IF Contains(name, "ssl") \/ Contains(msg, "ssl") THEN "SSL_ERROR"
      ELSE IF Contains(name, "timeout") \/ Contains(msg, "timeout") THEN "TIMEOUT"
      ELSE IF \/ Contains(msg, "dns")
              \/ Contains(msg, "name or service not known")
              \/ Contains(msg, "nodename nor servname") THEN "DNS_ERROR"
      ELSE IF Contains(name, "connect") \/ Contains(msg, "connect") THEN "CONNECT_ERROR"
      ELSE IF Contains(name, "read") THEN "READ_ERROR"
      ELSE exc.name

\* the same tests with the connection test made first
classify_error_connect_first(exc) ==
  LET name == Lower(exc.name)
      msg  == Lower(exc.msg)
  IN  IF Contains(name, "connect") \/ Contains(msg, "connect") THEN "CONNECT_ERROR"
      ELSE IF Contains(name, "ssl") \/ Contains(msg, "ssl") THEN "SSL_ERROR"
      ELSE IF Contains(name, "timeout") \/ Contains(msg, "timeout") THEN "TIMEOUT"
      ELSE IF \/ Contains(msg, "dns")
              \/ Contains(msg, "name or service not known")
              \/ Contains(msg, "nodename nor servname") THEN "DNS_ERROR"
      ELSE IF Contains(name, "read") THEN "READ_ERROR"
      ELSE "ERROR (" \o exc.name \o ")"

\* an exception is its type's name and its message
classify_error(exc) ==
  LET name == Lower(exc.name)
      msg  == Lower(exc.msg)
  IN  IF Contains(name, "ssl") \/ Contains(msg, "ssl") THEN "SSL_ERROR"
      ELSE IF Contains(name, "timeout") \/ Contains(msg, "timeout") THEN "TIMEOUT"
      ELSE IF \/ Contains(msg, "dns")
              \/ Contains(msg, "name or service not known")
              \/ Contains(msg, "nodename nor servname") THEN "DNS_ERROR"
      ELSE IF Contains(name, "connect") \/ Contains(msg, "connect") THEN "CONNECT_ERROR"
      ELSE IF Contains(name, "read") THEN "READ_ERROR"
      ELSE "ERROR (" \o exc.name \o ")"

detect_soft_404(content_type, body_snippet) ==
  IF ~Contains(content_type, "text/html") THEN FALSE
  ELSE LET lower == Lower(body_snippet)
       IN  \E pat \in SOFT_404_PATTERNS : Contains(lower, pat)

\* the separator of a redirect chain, the one-character string U+2192 (a right
\* arrow); TLC keeps only 7-bit characters in a state, so ">" stands for it
ARROW == ">"

\* [str(r.status_code) for r in resp.history]
HistoryCodes(history) == [k \in 1..Len(history) |-> Str(history[k])]

\* the chain without the final status appended
build_redirect_chain_history_only(resp) ==
  IF Len(resp.history) = 0 THEN Str(resp.status_code)
  ELSE Join(HistoryCodes(resp.history), ARROW)

build_redirect_chain(resp) ==
  IF Len(resp.history) = 0 THEN Str(resp.status_code)
  ELSE Join(Append(HistoryCodes(resp.history), Str(resp.status_code)), ARROW)

get_first_status(resp) ==
  IF Len(resp.history) # 0 THEN Str(resp.history[1]) ELSE Str(resp.status_code)

method_from_resp(resp) == resp.method

(***************************************************************************)
(* The network: what one request can come back with.                       *)
(***************************************************************************)
\* the primary probe found no response
NoResp == [status_code |-> 0, history |-> <<>>, method |-> "", content_type |-> "",
           text |-> "", url |-> ""]

NoExc == [name |-> "", msg |-> ""]

BodyHome   == "<html><title>Home</title></html>"
BodyMarker == "<html><title>Page Not Found</title></html>"
\* the marker starts after the first SnippetLen characters
BodyLate   == Repeat(" ", SnippetLen) \o "page not found"

\* resp.history of a followed redirect chain
Histories == { SubSeq(<<301, 302, 307, 308>>, 1, k) : k \in 0..MaxRedirects }

FullStatuses == {200, 301, 403, 404, 500}
\* the (content-type, body) pairs a GET can be answered with
FullContents ==
  { << "text/html; charset=utf-8", BodyHome >>,
    << "text/html; charset=utf-8", BodyMarker >>,
    << "text/html; charset=utf-8", BodyLate >>,
    << "application/json", BodyMarker >> }
FullExcs ==
  { [name |-> "ConnectTimeout", msg |-> ""],
    [name |-> "ReadTimeout", msg |-> "The read operation timed out"],
    [name |-> "ConnectError", msg |-> "[SSL: CERTIFICATE_VERIFY_FAILED] certificate verify failed"],
    [name |-> "ConnectError", msg |-> "[Errno -2] Name or service not known"],
    [name |-> "ConnectError", msg |-> "All connection attempts failed"],
    [name |-> "ReadError", msg |-> ""],
    [name |-> "TooManyRedirects", msg |-> "Exceeded maximum allowed redirects."] }

CoarseStatuses == {200, 404}
\* the status of a server that refuses HEAD: Method Not Allowed
HeadOnlyStatuses == {405}
CoarseExcs     == { [name |-> "ConnectTimeout", msg |-> ""] }

\* str(resp.url): the request's URL, or the target of the last redirect
FinalUrl(url, history) == IF Len(history) = 0 THEN url ELSE url \o "/moved"

\* the responses a HEAD or a GET of url can obtain; a HEAD response has no body
Responses(full, method, url) ==
  IF full
  THEN { [status_code |-> s, history |-> h, method |-> method, content_type |-> c[1],
          text |-> c[2], url |-> FinalUrl(url, h)] :
           s \in FullStatuses \cup (IF method = "HEAD" THEN HeadOnlyStatuses ELSE {}),
           h \in Histories,
           c \in (IF method = "HEAD" THEN {<< "text/html; charset=utf-8", "" >>}
                                     ELSE FullContents) }
  ELSE { [status_code |-> s, history |-> <<>>, method |-> method,
          content_type |-> "text/html; charset=utf-8", text |-> "", url |-> url] :
           s \in CoarseStatuses \cup (IF method = "HEAD" THEN HeadOnlyStatuses ELSE {}) }

Exceptions(full) == IF full THEN FullExcs ELSE CoarseExcs

(***************************************************************************)
(* State.                                                                  *)
(***************************************************************************)
VARIABLES
  urls,           \* _run's input list
  concurrency,    \* settings of the run
  retries,
  head_then_get,
  safari_retry,
  ua_label,       \* the primary identity's label
  full,           \* whether the network draws from its full universe
  sem_value,      \* asyncio.Semaphore: free slots
  sem_waiters,    \* asyncio.Semaphore: tasks waiting, first come first served
  task,           \* per task _wrapped(u): where it is and its locals
  done_count,     \* _run's shared counter
  ticks,          \* the (done_count, total) pairs given to progress_callback
  run_pc,         \* "idle" | "running" | "returned"
  results         \* what _run returned

checker_vars ==
  << urls, concurrency, retries, head_then_get, safari_retry, ua_label, full,
     sem_value, sem_waiters, task, done_count, ticks, run_pc, results >>

VARIABLES
  sm_site,        \* which family of documents the site serves
  sm_source,      \* the source given to the top-level call
  sm_fetched,     \* what the latest fetch obtained
  sm_pc,          \* "idle" | "running" | "returned" | "raised"
  sm_stack,       \* the active parse_sitemap calls that iterate over an index
  sm_visited,     \* _visited, shared by every call of one resolution
  sm_result,      \* what the top-level call returned
  sm_log,         \* the messages given to progress_callback
  sm_calls,       \* every call of parse_sitemap made: its source and depth
  sm_refs,        \* every child location an index loop looked at
  sm_seen         \* every page location read from a urlset, in reading order

sitemap_vars ==
  << sm_site, sm_source, sm_fetched, sm_pc, sm_stack, sm_visited, sm_result, sm_log, sm_calls, sm_refs, sm_seen >>

VARIABLES
  rs_now,         \* datetime.now(), in clock readings
  rs_files,       \* the files of RUNS_DIR: the text of <id>.json for each id
  rs_calls        \* the calls of save_run and delete_run in the order made

store_vars == << rs_now, rs_files, rs_calls >>

vars == << checker_vars, sitemap_vars, store_vars >>

\* a directory without files
NoFiles == [run_id \in {} |-> run_id]

\* RUNS_DIR is empty and the store has not been called
StoreIdle ==
  /\ rs_now = 0
  /\ rs_files = NoFiles
  /\ rs_calls = << >>

\* an XML element: its tag, its text and its child elements
El(tag, text, children) == [tag |-> tag, text |-> text, children |-> children]

NoElement == El("", "", << >>)

\* A byte string: its leading bytes, and what the rest of it holds. A gzip
\* stream (gz = "valid") holds another byte string, whose leading bytes are
\* inner; xml says what lxml makes of the text: a tree with this root, no
\* tree at all ("garbage"), or a syntax error it cannot recover from ("empty").
Bytes(head, gz, inner, xml, root) ==
  [head |-> head, gz |-> gz, inner |-> inner, xml |-> xml, root |-> root]

\* "<"
LT == 60

Plain(root) == Bytes(<< LT >>, "none", << >>, "tree", root)

NoFetch == [ok |-> FALSE, raw |-> Plain(NoElement), exc |-> ""]

UrlSource(u) == [bytes |-> FALSE, url |-> u, raw |-> Plain(NoElement)]

NoSource == UrlSource("")

\* no sitemap resolution is under way
SitemapIdle ==
  /\ sm_site = "none"
  /\ sm_source = NoSource
  /\ sm_fetched = NoFetch
  /\ sm_pc = "idle"
  /\ sm_stack = << >>
  /\ sm_visited = {}
  /\ sm_result = << >>
  /\ sm_log = << >>
  /\ sm_calls = << >>
  /\ sm_refs = {}
  /\ sm_seen = << >>

Settings == << urls, concurrency, retries, head_then_get, safari_retry, ua_label, full >>

Tasks == 1..Len(urls)

\* asyncio.create_task(_wrapped(u)): a task that has not run yet
NewTask(u) ==
  [ pc          |-> "created",   \* created | waiting | woken | primary_head |
                                 \* primary_get | sleep | alt_head | alt_get | done
    url         |-> u,
    attempt     |-> 0,           \* the loop variable of _check_one
    result      |-> CheckResult(u),
    last_exc    |-> NoExc,
    elapsed     |-> 0,
    resp        |-> NoResp,      \* the primary probe's response
    alt_resp    |-> NoResp,      \* the alternate probe's response
    attempts    |-> 0,           \* calls of _do_request with the primary identity
    requests    |-> 0,           \* requests sent for this URL (see Sent)
    traced      |-> FALSE,       \* whether wire is kept
    wire        |-> << >>,       \* the requests sent for this URL, each with its
                                 \* identity, its method and what came back
    sleeps      |-> << >>,       \* the backoff sleeps taken, each with the index
                                 \* of the failed attempt and its length
    ranked      |-> FALSE,       \* whether rank is kept
    rank        |-> 0 ]          \* the count given to progress_callback when this
                                 \* task finished

\* the tasks inside  async with sem
Holding == { i \in Tasks : task[i].pc \in
               {"woken", "primary_head", "primary_get", "sleep", "alt_head", "alt_get"} }

\* the tasks with a request on the wire
InFlight == { i \in Tasks : task[i].pc \in
               {"primary_head", "primary_get", "alt_head", "alt_get"} }

(***************************************************************************)
(* asyncio.Semaphore(concurrency).                                         *)
(***************************************************************************)
\* a semaphore that never reports itself locked
sem_locked_never == FALSE

\* Semaphore.locked(): no free slot, or somebody is already waiting
sem_locked == sem_value = 0 \/ Len(sem_waiters) > 0

\* Semaphore.release(): the slot goes to the first waiter, if any
ReleasedValue == IF Len(sem_waiters) > 0 THEN sem_value ELSE sem_value + 1

ReleasedWaiters == IF Len(sem_waiters) > 0 THEN Tail(sem_waiters) ELSE sem_waiters

\* a release that wakes nobody
ReleasedTasksNobodyWoken(i, t) == [task EXCEPT ![i] = t]

\* the task function after task i left  async with sem  with local record t
ReleasedTasks(i, t) ==
  LET mine == [task EXCEPT ![i] = t]
  IN  IF Len(sem_waiters) > 0
      THEN [mine EXCEPT ![Head(sem_waiters)].pc = "woken"]
      ELSE mine

(***************************************************************************)
(* _do_request and _check_one.                                             *)
(***************************************************************************)
\* a _do_request that always keeps the answer to its HEAD
NeedsGetNever(status_code) == FALSE

\* a fallback to GET on server errors only
NeedsGetOnServerError(status_code) == status_code >= 500

\* _do_request: a HEAD response with this status is followed by a GET
NeedsGet(status_code) == status_code >= 400

\* one more request is on the wire; requests are counted in probe runs only
Sent(n) == IF full THEN n + 1 ELSE n

\* what wire holds for a request that is still on the wire, and for one that
\* raised
PENDING == -1
RAISED == 0

\* await client.request(method, url, headers=...) is entered
Request(t, identity, method) ==
  IF t.traced
  THEN [t EXCEPT !.requests = Sent(@),
                 !.wire = Append(@, [identity |-> identity, method |-> method,
                                     status |-> PENDING])]
  ELSE [t EXCEPT !.requests = Sent(@)]

\* the pending request came back with this status, or raised
Answered(t, status) ==
  IF t.traced THEN [t EXCEPT !.wire[Len(t.wire)].status = status] ELSE t

\* lines 142-148: the method of the first request of _do_request
FirstMethod == IF head_then_get THEN "HEAD" ELSE "GET"

\* where a task is while its request with this identity and method is out
Awaiting(identity, method) ==
  (IF identity = "primary" THEN "primary_" ELSE "alt_")
    \o (IF method = "HEAD" THEN "head" ELSE "get")

\* an attempt that sends the probe of the alternate identity together with
\* the primary request instead of after its answer
BeginAttemptWithAlt(t) ==
  Request(Request([t EXCEPT !.pc = Awaiting("primary", FirstMethod), !.attempts = @ + 1],
                  "primary", FirstMethod),
          "alt", FirstMethod)

\* the for loop enters its body: t0 is taken and _do_request is called
BeginAttempt(t) ==
  Request([t EXCEPT !.pc = Awaiting("primary", FirstMethod), !.attempts = @ + 1],
          "primary", FirstMethod)

\* the time the attempt with this 0-based index took
Elapsed(attempt) == attempt + 1

\* lines 183-196: the result of a primary probe that obtained resp
Populate(r, resp, elapsed) ==
  LET r1 == [r EXCEPT !.first_status_code = get_first_status(resp),
                      !.final_status_code = Str(resp.status_code),
                      !.final_url         = resp.url,
                      !.response_time_ms  = elapsed,
                      !.redirect_count    = Len(resp.history),
                      !.redirect_chain    = build_redirect_chain(resp),
                      !.method_used       = method_from_resp(resp),
                      !.user_agent_used   = ua_label]
  IN  IF r1.method_used = "GET" /\ resp.status_code = 200
      THEN [r1 EXCEPT !.soft_404 =
              detect_soft_404(resp.content_type, Prefix(resp.text, SnippetLen))]
      ELSE r1

\* the alternate identity tried on every status >= 400
WantsSafariAnyError(resp) == safari_retry /\ resp.status_code >= 400

\* line 199: whether the alternate identity is tried
WantsSafari(resp) == safari_retry /\ resp.status_code \in {403, 404}

\* a promotion of every alternate response short of a server error
PromotesBelow500(alt) == alt.status_code < 500

\* line 209: whether the alternate probe's response replaces the primary's
Promotes(alt) == alt.status_code < 400

\* a promotion that computes the soft-404 flag anew from the alternate
\* response
RecordAltWithSoft404(r, alt) ==
  LET r1 == [r EXCEPT !.alt_status_code     = Str(alt.status_code),
                      !.alt_user_agent_used = SafariLabel]
  IN  IF Promotes(alt)
      THEN [r1 EXCEPT !.first_status_code = get_first_status(alt),
                      !.final_status_code = Str(alt.status_code),
                      !.final_url         = alt.url,
                      !.redirect_count    = Len(alt.history),
                      !.redirect_chain    = build_redirect_chain(alt),
                      !.method_used       = method_from_resp(alt),
                      !.user_agent_used   = SafariRetryLabel,
                      !.soft_404          =
                         /\ method_from_resp(alt) = "GET"
                         /\ alt.status_code = 200
                         /\ detect_soft_404(alt.content_type, Prefix(alt.text, SnippetLen))]
      ELSE r1

\* lines 205-216: the result after the alternate probe obtained alt
RecordAlt(r, alt) ==
  LET r1 == [r EXCEPT !.alt_status_code     = Str(alt.status_code),
                      !.alt_user_agent_used = SafariLabel]
  IN  IF Promotes(alt)
      THEN [r1 EXCEPT !.first_status_code = get_first_status(alt),
                      !.final_status_code = Str(alt.status_code),
                      !.final_url         = alt.url,
                      !.redirect_count    = Len(alt.history),
                      !.redirect_chain    = build_redirect_chain(alt),
                      !.method_used       = method_from_resp(alt),
                      !.user_agent_used   = SafariRetryLabel]
      ELSE r1

\* random.uniform(0, 0.3), in tenths of a second: the ends of the interval
Jitters == {0, 3}

\* a backoff that does not grow
BackoffFixed(attempt, jitter) == 5 + jitter

\* line 226: (0.5 * (2 ** attempt)) + random.uniform(0, 0.3), in tenths of a
\* second
Backoff(attempt, jitter) == 5 * (2 ^ attempt) + jitter

\* await asyncio.sleep(backoff) is entered
Sleep(t, backoff) ==
  IF t.traced
  THEN [t EXCEPT !.pc = "sleep",
                 !.sleeps = Append(@, [attempt |-> t.attempt, backoff |-> backoff])]
  ELSE [t EXCEPT !.pc = "sleep"]

\* a sleep after every failed attempt, the last one included
SleepsAfterEvery(attempt) == attempt <= retries

\* line 225: a backoff sleep follows the failed attempt
SleepsAfter(attempt) == attempt < retries

\* range(2 + retries): one attempt too many
HasNextAttemptLong(attempt) == attempt + 1 < 2 + retries

\* range(retries): one attempt too few
HasNextAttemptShort(attempt) == attempt + 1 < retries

\* line 177: range(1 + retries) has a value after attempt
HasNextAttempt(attempt) == attempt + 1 < 1 + retries

\* lines 230-234: the result when every attempt failed
Exhausted(r, exc, elapsed) ==
  LET error_label == classify_error(exc)
  IN  [r EXCEPT !.final_status_code = error_label,
                !.error             = error_label,
                !.response_time_ms  = elapsed,
                !.user_agent_used   = ua_label]

(***************************************************************************)
(* _run: the tasks, one per entry of urls, and the gather.                  *)
(***************************************************************************)
\* the callback given the counter as it was before  done_count += 1
CountedBefore(count) == count

\* done_count += 1
Counted(count) == count + 1

\* _wrapped, after _check_one returned t.result: the slot is released, the
\* shared counter is incremented and progress_callback is called, with no
\* suspension point in between
Finish(i, t) ==
  /\ task' = ReleasedTasks(i, [t EXCEPT !.pc = "done",
                                        !.rank = IF t.ranked THEN Counted(done_count) ELSE 0])
  /\ sem_value' = ReleasedValue
  /\ sem_waiters' = ReleasedWaiters
  /\ done_count' = Counted(done_count)
  /\ ticks' = Append(ticks, << Counted(done_count), Len(urls) >>)
  /\ UNCHANGED << sitemap_vars, store_vars >>

\* a step of task i that neither leaves  async with sem  nor ends the task
Continue(i, t) ==
  /\ task' = [task EXCEPT ![i] = t]
  /\ UNCHANGED << sem_value, sem_waiters, done_count, ticks >>
  /\ UNCHANGED << sitemap_vars, store_vars >>

\* the task runs for the first time:  async with sem  takes a slot and the
\* first request goes out, or the task queues behind the semaphore
Start(i) ==
  /\ run_pc = "running"
  /\ task[i].pc = "created"
  /\ IF ~sem_locked
     THEN /\ sem_value' = sem_value - 1
          /\ task' = [task EXCEPT ![i] = BeginAttempt(@)]
          /\ UNCHANGED sem_waiters
     ELSE /\ sem_waiters' = Append(sem_waiters, i)
          /\ task' = [task EXCEPT ![i].pc = "waiting"]
          /\ UNCHANGED sem_value
  /\ UNCHANGED << Settings, done_count, ticks, run_pc, results >>
  /\ UNCHANGED << sitemap_vars, store_vars >>

\* a waiter that was handed a slot runs again
Resume(i) ==
  /\ task[i].pc = "woken"
  /\ Continue(i, BeginAttempt(task[i]))
  /\ UNCHANGED << Settings, run_pc, results >>

\* a loop that takes a response >= 500 for a failed attempt while attempts
\* remain
SucceedUnlessServerError(i, resp) ==
  LET t == [Answered(task[i], resp.status_code) EXCEPT
              !.elapsed = Elapsed(task[i].attempt),
              !.resp    = resp,
              !.result  = Populate(@, resp, Elapsed(task[i].attempt))]
  IN  IF resp.status_code >= 500 /\ HasNextAttempt(t.attempt)
      THEN Continue(i, BeginAttempt([t EXCEPT !.attempt = @ + 1]))
      ELSE IF WantsSafari(resp)
      THEN Continue(i, Request([t EXCEPT !.pc = Awaiting("alt", FirstMethod)],
                               "alt", FirstMethod))
      ELSE Finish(i, t)

\* lines 181-220: the primary probe returned resp
Succeed(i, resp) ==
  LET t == [Answered(task[i], resp.status_code) EXCEPT
              !.elapsed = Elapsed(task[i].attempt),
              !.resp    = resp,
              !.result  = Populate(@, resp, Elapsed(task[i].attempt))]
  IN  IF WantsSafari(resp)
      THEN Continue(i, Request([t EXCEPT !.pc = Awaiting("alt", FirstMethod)],
                               "alt", FirstMethod))
      ELSE Finish(i, t)

\* the primary HEAD is answered
PrimaryHead(i) ==
  /\ task[i].pc = "primary_head"
  /\ \E resp \in Responses(full, "HEAD", task[i].url) :
       IF NeedsGet(resp.status_code)
       THEN Continue(i, Request([Answered(task[i], resp.status_code) EXCEPT
                                   !.pc = Awaiting("primary", "GET")],
                                "primary", "GET"))
       ELSE Succeed(i, resp)
  /\ UNCHANGED << Settings, run_pc, results >>

\* the primary GET is answered
PrimaryGet(i) ==
  /\ task[i].pc = "primary_get"
  /\ \E resp \in Responses(full, "GET", task[i].url) : Succeed(i, resp)
  /\ UNCHANGED << Settings, run_pc, results >>

\* a loop that gives up after the first failed attempt
NextAttemptGivesUp(i, t) ==
  Finish(i, [t EXCEPT !.result = Exhausted(@, t.last_exc, t.elapsed)])

\* the loop after the attempt with index t.attempt failed and any sleep ended
NextAttempt(i, t) ==
  IF HasNextAttempt(t.attempt)
  THEN Continue(i, BeginAttempt([t EXCEPT !.attempt = @ + 1]))
  ELSE Finish(i, [t EXCEPT !.result = Exhausted(@, t.last_exc, t.elapsed)])

\* lines 222-227: a request of the primary probe raised
PrimaryFail(i) ==
  /\ task[i].pc \in {"primary_head", "primary_get"}
  /\ \E exc \in Exceptions(full) :
       LET t == [Answered(task[i], RAISED) EXCEPT
                   !.last_exc = exc,
                   !.elapsed  = Elapsed(task[i].attempt)]
       IN  IF SleepsAfter(t.attempt)
           THEN \E jitter \in Jitters :
                  Continue(i, Sleep(t, Backoff(t.attempt, jitter)))
           ELSE NextAttempt(i, t)
  /\ UNCHANGED << Settings, run_pc, results >>

\* asyncio.sleep(backoff) returned
SleepDone(i) ==
  /\ task[i].pc = "sleep"
  /\ NextAttempt(i, task[i])
  /\ UNCHANGED << Settings, run_pc, results >>

\* the alternate probe returned alt
AltSucceed(i, alt) ==
  Finish(i, [Answered(task[i], alt.status_code) EXCEPT
               !.alt_resp = alt, !.result = RecordAlt(@, alt)])

\* the alternate HEAD is answered
AltHead(i) ==
  /\ task[i].pc = "alt_head"
  /\ \E alt \in Responses(full, "HEAD", task[i].url) :
       IF NeedsGet(alt.status_code)
       THEN Continue(i, Request([Answered(task[i], alt.status_code) EXCEPT
                                   !.pc = Awaiting("alt", "GET")],
                                "alt", "GET"))
       ELSE AltSucceed(i, alt)
  /\ UNCHANGED << Settings, run_pc, results >>

\* the alternate GET is answered
AltGet(i) ==
  /\ task[i].pc = "alt_get"
  /\ \E alt \in Responses(full, "GET", task[i].url) : AltSucceed(i, alt)
  /\ UNCHANGED << Settings, run_pc, results >>

\* a failure of the alternate probe handled by the handler of the primary
\* probe (lines 222-227)
AltFailEscalated(i) ==
  /\ task[i].pc \in {"alt_head", "alt_get"}
  /\ \E exc \in Exceptions(full) :
       LET t == [Answered(task[i], RAISED) EXCEPT !.last_exc = exc]
       IN  IF SleepsAfter(t.attempt)
           THEN \E jitter \in Jitters :
                  Continue(i, Sleep(t, Backoff(t.attempt, jitter)))
           ELSE NextAttempt(i, t)
  /\ UNCHANGED << Settings, run_pc, results >>

\* lines 217-218: a request of the alternate probe raised, which is swallowed
AltFail(i) ==
  /\ task[i].pc \in {"alt_head", "alt_get"}
  /\ Finish(i, Answered(task[i], RAISED))
  /\ UNCHANGED << Settings, run_pc, results >>

\* a gather that keeps only the results of the probes that obtained a response
GatherSuccesses ==
  SelectSeq([i \in Tasks |-> to_dict(task[i].result)], LAMBDA r : r.error = "")

\* the return values in the order in which the tasks finished
GatherAsCompleted ==
  [k \in Tasks |-> to_dict(task[CHOOSE i \in Tasks : task[i].rank = k].result)]

\* asyncio.gather(*tasks): the tasks' return values, in the order of tasks
GatherResults == [i \in Tasks |-> to_dict(task[i].result)]

\* lines 291-293: every task is done and _run returns
Gather ==
  /\ run_pc = "running"
  /\ \A i \in Tasks : task[i].pc = "done"
  /\ results' = GatherResults
  /\ run_pc' = "returned"
  /\ UNCHANGED << Settings, sem_value, sem_waiters, task, done_count, ticks >>
  /\ UNCHANGED << sitemap_vars, store_vars >>

CheckerNext ==
  \/ \E i \in Tasks : Start(i)
  \/ \E i \in Tasks : Resume(i)
  \/ \E i \in Tasks : PrimaryHead(i)
  \/ \E i \in Tasks : PrimaryGet(i)
  \/ \E i \in Tasks : PrimaryFail(i)
  \/ \E i \in Tasks : SleepDone(i)
  \/ \E i \in Tasks : AltHead(i)
  \/ \E i \in Tasks : AltGet(i)
  \/ \E i \in Tasks : AltFail(i)
  \/ Gather

(***************************************************************************)
(* Initial states: _run is called.                                         *)
(***************************************************************************)
Urls == {"https://a.example/", "https://b.example/x"}

UrlLists(n) == UNION { [1..k -> Urls] : k \in 0..n }

\* _run(urls, concurrency=c, retries=r, ...) up to the creation of the tasks
InitTasks(lists, limits, most, labels, f, kept) ==
  /\ urls \in lists
  /\ concurrency \in limits
  /\ retries \in 0..most
  /\ head_then_get \in BOOLEAN
  /\ safari_retry \in BOOLEAN
  /\ ua_label \in labels
  /\ full = f
  /\ sem_value = concurrency
  /\ sem_waiters = << >>
  /\ task = [i \in 1..Len(urls) |-> [NewTask(urls[i]) EXCEPT !.traced = "wire" \in kept,
                                                              !.ranked = "rank" \in kept]]
  /\ done_count = 0
  /\ ticks = << >>
  /\ run_pc = "running"
  /\ results = << >>
  /\ SitemapIdle
  /\ StoreIdle

\* a run whose requests are not kept
InitRun(lists, limits, labels, f) == InitTasks(lists, limits, MaxRetries, labels, f, {})

\* a concurrent run over up to MaxUrls URLs
Init == InitRun(UrlLists(MaxUrls), 1..MaxConc, {"Chrome macOS (default)"}, FALSE)

Next == CheckerNext

Spec == Init /\ [][Next]_vars

\* the steps of task i
TaskStep(i) ==
  /\ i \in Tasks
  /\ \/ Start(i)
     \/ Resume(i)
     \/ PrimaryHead(i)
     \/ PrimaryGet(i)
     \/ PrimaryFail(i)
     \/ SleepDone(i)
     \/ AltHead(i)
     \/ AltGet(i)
     \/ AltFail(i)

\* the lists of up to n entries of one URL: what differs between the tasks of
\* such a run is how the network answers and the order in which they run
SameUrlLists(n) == { [i \in 1..k |-> "https://a.example/"] : k \in 0..n }

FairInit ==
  InitTasks(SameUrlLists(MaxUrls), 1..MaxConc, 1, {"Chrome macOS (default)"}, FALSE, {})

\* The event loop runs every task that can run, every request is answered or
\* fails, every sleep ends, and gather returns once every task is done.
FairSpec ==
  /\ FairInit
  /\ [][Next]_vars
  /\ \A i \in 1..MaxUrls : WF_vars(TaskStep(i))
  /\ WF_vars(Gather)

\* the check of one URL against the full universe of responses and failures
ProbeInit == InitRun({<< "https://a.example/" >>}, {1}, UaLabels, TRUE)

\* with a single URL nobody ever waits for a slot, so no task is resumed
ProbeNext ==
  \/ \E i \in Tasks : Start(i)
  \/ \E i \in Tasks : PrimaryHead(i)
  \/ \E i \in Tasks : PrimaryGet(i)
  \/ \E i \in Tasks : PrimaryFail(i)
  \/ \E i \in Tasks : SleepDone(i)
  \/ \E i \in Tasks : AltHead(i)
  \/ \E i \in Tasks : AltGet(i)
  \/ \E i \in Tasks : AltFail(i)
  \/ Gather

ProbeSpec == ProbeInit /\ [][ProbeNext]_vars

\* the check of one URL with every request it sends kept in wire
WireInit ==
  InitTasks({<< "https://a.example/" >>}, {1}, WireRetries, {"Chrome macOS (default)"},
            FALSE, {"wire"})

WireSpec == WireInit /\ [][ProbeNext]_vars

\* a run over two different URLs in which the order of completion is kept
OrderInit ==
  InitTasks({<< "https://a.example/", "https://b.example/x" >>}, 1..MaxConc, MaxRetries,
            {"Chrome macOS (default)"}, FALSE, {"rank"})

OrderSpec == OrderInit /\ [][Next]_vars

(***************************************************************************)
(* Properties of the checker.                                              *)
(***************************************************************************)
Returned == run_pc = "returned"

\* the indexes of the results reported for url, and of its entries in urls
ResultsFor(url) == { k \in 1..Len(results) : results[k].input_url = url }
EntriesOf(url)  == { k \in 1..Len(urls) : urls[k] = url }

\* C1: when _run returns, the results are exactly one per entry of the input
\* list: as many results as entries, and every URL is reported as many times
\* as it occurs in the input, whatever the interleaving and whether its probe
\* succeeded or every attempt failed.
C1_OneResultPerUrl ==
  Returned =>
    /\ Len(results) = Len(urls)
    /\ \A k \in 1..Len(results) : results[k].input_url \in Urls
    /\ \A u \in Urls : Cardinality(ResultsFor(u)) = Cardinality(EntriesOf(u))

\* the same URL given twice, one check failing on every attempt and the other
\* obtaining a response
C1_Witness ==
  /\ Returned
  /\ Len(urls) = 2
  /\ urls[1] = urls[2]
  /\ results[1].error # ""
  /\ results[2].error = ""

\* C2: in every reachable state the tasks holding a concurrency slot, and so
\* the tasks with a request in flight, are at most concurrency many.
C2_SlotsWithinLimit ==
  /\ Cardinality(Holding) <= concurrency
  /\ Cardinality(InFlight) <= concurrency

\* every slot is taken by a request in flight while another task waits
C2_Witness ==
  /\ Cardinality(InFlight) = concurrency
  /\ Len(sem_waiters) > 0

\* a 3-digit numeric string
IsStatusString(s) ==
  /\ Len(s) = 3
  /\ \A k \in 1..3 : SubSeq(s, k, k) \in DigitChars

\* a label of the fixed error taxonomy
IsErrorLabel(s) ==
  \/ s \in {"SSL_ERROR", "TIMEOUT", "DNS_ERROR", "CONNECT_ERROR", "READ_ERROR"}
  \/ /\ Len(s) > 8
     /\ SubSeq(s, 1, 7) = "ERROR ("
     /\ SubSeq(s, Len(s), Len(s)) = ")"

\* C6: every returned result's final_status_code is a 3-digit numeric string
\* or a label of the error taxonomy, and no result has final_status_code and
\* error both empty.
C6_FinalStatusWellFormed ==
  Returned =>
    \A k \in 1..Len(results) :
      /\ IsStatusString(results[k].final_status_code)
           \/ IsErrorLabel(results[k].final_status_code)
      /\ ~(results[k].final_status_code = "" /\ results[k].error = "")

\* a failure outside the five named kinds is reported under the generic label
C6_Witness ==
  /\ Returned
  /\ Len(results) = 1
  /\ results[1].final_status_code = "ERROR (TooManyRedirects)"

\* the response that produced task i's result: the alternate probe's when it
\* was promoted, else the primary probe's
FinalResp(i) ==
  IF task[i].result.user_agent_used = SafariRetryLabel
  THEN task[i].alt_resp ELSE task[i].resp

\* the bodies whose first SnippetLen characters hold a soft-404 marker
MarkerBodies ==
  { c[2] : c \in { d \in FullContents :
      \E pat \in SOFT_404_PATTERNS : Contains(Lower(Prefix(d[2], SnippetLen)), pat) } }

\* C7: a result's soft_404 flag is true exactly when the response that
\* produced it has status 200, was a GET, is HTML and carries a soft-404
\* marker in the first 8KB of its body.
C7_Soft404Iff ==
  \A i \in Tasks :
    task[i].pc = "done" =>
      ( task[i].result.soft_404 <=>
          /\ FinalResp(i).status_code = 200
          /\ FinalResp(i).method = "GET"
          /\ Contains(FinalResp(i).content_type, "text/html")
          /\ FinalResp(i).text \in MarkerBodies )

\* C8: the alternate-identity fields of a result are non-empty only if the
\* alternate retry was enabled and the primary probe's status was 403 or 404;
\* otherwise (option off, another status, every attempt failed) both are empty.
C8_AltFieldsOnlyAfter403Or404 ==
  \A i \in Tasks :
    task[i].pc = "done" =>
      \/ safari_retry /\ task[i].resp.status_code \in {403, 404}
      \/ /\ task[i].result.alt_status_code = ""
         /\ task[i].result.alt_user_agent_used = ""

\* a primary 403 whose alternate probe was answered and recorded
C8_Witness ==
  \E i \in Tasks :
    /\ task[i].pc = "done"
    /\ task[i].resp.status_code = 403
    /\ task[i].result.alt_status_code = "200"
    /\ task[i].result.alt_user_agent_used = SafariLabel

RECURSIVE Split(_, _)
\* Python's  s.split(sep)  for a separator of one character
Split(s, sep) ==
  IF \A k \in 1..Len(s) : SubSeq(s, k, k) # sep THEN << s >>
  ELSE LET k == CHOOSE j \in 1..Len(s) :
                  /\ SubSeq(s, j, j) = sep
                  /\ \A h \in 1..(j - 1) : SubSeq(s, h, h) # sep
       IN  << SubSeq(s, 1, k - 1) >> \o Split(SubSeq(s, k + 1, Len(s)), sep)

ChainWellFormed(r) ==
  LET segments == Split(r.redirect_chain, ARROW)
  IN  /\ Len(segments) = r.redirect_count + 1
      /\ segments[Len(segments)] = r.final_status_code

\* C9 as stated: every returned result's redirect_chain has redirect_count + 1
\* segments, the last one being final_status_code.
C9_ChainOfEveryResult ==
  Returned => \A k \in 1..Len(results) : ChainWellFormed(results[k])

\* C9 amended: every returned result of a probe that obtained a response
\* (error empty) has a redirect_chain of redirect_count + 1 segments, the last
\* one being final_status_code.
C9_ChainOfSuccess ==
  Returned =>
    \A k \in 1..Len(results) : results[k].error = "" => ChainWellFormed(results[k])

\* a promoted alternate response that went through two redirects
C9_Witness ==
  /\ Returned
  /\ Len(results) = 1
  /\ results[1].user_agent_used = SafariRetryLabel
  /\ results[1].redirect_count = 2
  /\ results[1].redirect_chain = "301" \o ARROW \o "302" \o ARROW \o "200"

\* C10: when every primary attempt for a URL failed at transport level,
\* exactly retries + 1 attempts were made, final_status_code and error are
\* both the classified label of the failure (TIMEOUT for a timeout), and
\* user_agent_used is the primary identity's label.
C10_ExhaustedAttempts ==
  \A i \in Tasks :
    (task[i].pc = "done" /\ task[i].resp = NoResp) =>
      /\ task[i].attempts = retries + 1
      /\ task[i].result.error # ""
      /\ IsErrorLabel(task[i].result.error)
      /\ task[i].result.final_status_code = task[i].result.error
      /\ task[i].last_exc.name \in {"ConnectTimeout", "ReadTimeout"} =>
           task[i].result.error = "TIMEOUT"
      /\ task[i].result.user_agent_used = ua_label

\* retries = 1 and a timeout on both attempts
C10_Witness ==
  \E i \in Tasks :
    /\ task[i].pc = "done"
    /\ task[i].resp = NoResp
    /\ retries = 1
    /\ task[i].attempts = 2
    /\ task[i].result.final_status_code = "TIMEOUT"
    /\ task[i].result.error = "TIMEOUT"

\* the requests of task i that came back with a response
Responded(i) == { k \in 1..Len(task[i].wire) : task[i].wire[k].status > 0 }

\* request k of task i is the GET that _do_request sends after its HEAD
FollowsHead(i, k) ==
  /\ k > 1
  /\ task[i].wire[k - 1].method = "HEAD"
  /\ task[i].wire[k - 1].identity = task[i].wire[k].identity
  /\ task[i].wire[k - 1].status >= 400

\* the result of task i was taken from request k
TakenFrom(i, k) ==
  /\ task[i].result.method_used = task[i].wire[k].method
  /\ task[i].result.final_status_code = Str(task[i].wire[k].status)

\* C11: with HEAD-then-GET enabled every probe sends a HEAD first and sends a
\* GET if and only if the HEAD came back with a status >= 400, and then the
\* result is taken from the GET; with it disabled a probe sends one GET and
\* no HEAD.
C11_HeadThenGet ==
  \A i \in Tasks :
    LET wire == task[i].wire
    IN  /\ \A k \in 1..Len(wire) :
              IF head_then_get
              THEN /\ wire[k].method = "GET" => FollowsHead(i, k)
                   /\ (wire[k].method = "HEAD" /\ wire[k].status >= 400) =>
                        /\ k < Len(wire)
                        /\ wire[k + 1].method = "GET"
                        /\ wire[k + 1].identity = wire[k].identity
              ELSE /\ wire[k].method = "GET"
                   /\ k > 1 => \/ wire[k - 1].status = RAISED
                               \/ wire[k - 1].identity # wire[k].identity
        /\ (task[i].pc = "done" /\ task[i].result.error = "") =>
              \E k \in Responded(i) :
                /\ TakenFrom(i, k)
                /\ \A h \in Responded(i) :
                     (h > k /\ wire[h].identity = wire[k].identity) => h = k

\* Scenario C: the HEAD is refused with 405, the GET is answered 200
C11_Witness ==
  \E i \in Tasks :
    /\ task[i].pc = "done"
    /\ task[i].wire = << [identity |-> "primary", method |-> "HEAD", status |-> 405],
                         [identity |-> "primary", method |-> "GET", status |-> 200] >>
    /\ task[i].result.method_used = "GET"
    /\ task[i].result.final_status_code = "200"
    /\ task[i].result.redirect_count = 0

\* the six response fields of result r are those of the response resp
FieldsFrom(r, resp) ==
  /\ r.first_status_code =
       Str(IF Len(resp.history) > 0 THEN resp.history[1] ELSE resp.status_code)
  /\ r.final_status_code = Str(resp.status_code)
  /\ r.final_url = resp.url
  /\ r.redirect_count = Len(resp.history)
  /\ Split(r.redirect_chain, ARROW) =
       [k \in 1..(Len(resp.history) + 1) |->
          Str(IF k <= Len(resp.history) THEN resp.history[k] ELSE resp.status_code)]
  /\ r.method_used = resp.method

\* C12: when the alternate probe obtained a response with a status < 400, the
\* result's first-hop status, final status, final URL, redirect count, redirect
\* chain and method are the alternate response's and user_agent_used marks the
\* retry; when its status is >= 400 those fields are the primary response's,
\* and only the alternate status and label are recorded.
C12_Promotion ==
  \A i \in Tasks :
    (task[i].pc = "done" /\ task[i].alt_resp # NoResp) =>
      LET r == task[i].result
          alt == task[i].alt_resp
      IN  /\ r.alt_status_code = Str(alt.status_code)
          /\ r.alt_user_agent_used = SafariLabel
          /\ IF alt.status_code < 400
             THEN /\ FieldsFrom(r, alt)
                  /\ r.user_agent_used = SafariRetryLabel
                  /\ r.user_agent_used # ua_label
             ELSE /\ FieldsFrom(r, task[i].resp)
                  /\ r.user_agent_used = ua_label

\* Scenario E: the primary identity gets 404 and the alternate identity 200
\* after one redirect
C12_Witness ==
  \E i \in Tasks :
    /\ task[i].pc = "done"
    /\ task[i].resp.status_code = 404
    /\ task[i].alt_resp.status_code = 200
    /\ Len(task[i].alt_resp.history) = 1
    /\ task[i].result.final_status_code = "200"
    /\ task[i].result.first_status_code = "301"
    /\ task[i].result.user_agent_used = "Safari macOS (retry)"

\* the tasks that can take a step: every task except those queued behind the
\* semaphore and those that ended
Runnable == { i \in Tasks : task[i].pc \notin {"waiting", "done"} }

\* C13: a transport failure is never raised out of the checker and never keeps
\* the other URLs from being checked: as long as a task has not ended some
\* task can run, the run returns a result for every URL, and a URL's error
\* label appears in its result only once all its retries + 1 attempts failed.
C13_FailuresContained ==
  /\ (\E i \in Tasks : task[i].pc # "done") => Runnable # {}
  /\ \A i \in Tasks :
       task[i].result.error # "" =>
         /\ task[i].pc = "done"
         /\ task[i].attempts = retries + 1
         /\ task[i].result.error = task[i].result.final_status_code
  /\ Returned =>
       /\ Len(results) = Len(urls)
       /\ \A i \in Tasks : results[i] = to_dict(task[i].result)

\* one slot, the first URL fails on both attempts while the second waits for
\* the slot, and the second is then checked and answered
C13_Witness ==
  /\ Returned
  /\ concurrency = 1
  /\ retries = 1
  /\ Len(results) = 2
  /\ results[1].error = "TIMEOUT"
  /\ task[1].attempts = 2
  /\ results[2].final_status_code = "200"
  /\ ticks = << << 1, 2 >>, << 2, 2 >> >>

(***************************************************************************)
(* sitemap.py: documents and pure helpers.                                 *)
(***************************************************************************)
MAX_DEPTH == 3

Whitespace == {" ", "\t", "\n", "\r"}

RECURSIVE Strip(_)
\* Python's str.strip()
Strip(s) ==
  IF Len(s) > 0 /\ SubSeq(s, 1, 1) \in Whitespace
    THEN Strip(SubSeq(s, 2, Len(s)))
  ELSE IF Len(s) > 0 /\ SubSeq(s, Len(s), Len(s)) \in Whitespace
    THEN Strip(SubSeq(s, 1, Len(s) - 1))
  ELSE s

\* tag.split("}", 1)[1]  when the tag holds a "}", else the tag
strip_ns(tag) ==
  LET braces == { j \in 1..Len(tag) : SubSeq(tag, j, j) = "}" }
  IN  IF braces = {} THEN tag
      ELSE SubSeq(tag, (CHOOSE k \in braces : \A h \in braces : k <= h) + 1, Len(tag))

\* data[:n] of a byte string
Take(bytes, n) == SubSeq(bytes, 1, Min(n, Len(bytes)))

GZIP_MAGIC == << 31, 139 >>
BOM == << 239, 187, 191 >>

\* _decompress_if_gz: gzip.decompress raises on a stream that is not valid
decompress_if_gz(data) ==
  IF Take(data.head, 2) = GZIP_MAGIC
  THEN IF data.gz = "valid"
       THEN [raised |-> FALSE, data |-> [data EXCEPT !.head = data.inner, !.gz = "none"]]
       ELSE [raised |-> TRUE, data |-> data]
  ELSE [raised |-> FALSE, data |-> data]

\* _parse_xml: the BOM is dropped, then etree.fromstring(data, recover=True)
parse_xml(data) ==
  LET d == IF Take(data.head, 3) = BOM
           THEN [data EXCEPT !.head = SubSeq(@, 4, Len(@))] ELSE data
  IN  IF d.xml = "empty" THEN [raised |-> TRUE, root |-> NoElement, none |-> FALSE]
      ELSE IF d.xml = "garbage" THEN [raised |-> FALSE, root |-> NoElement, none |-> TRUE]
      ELSE [raised |-> FALSE, root |-> d.root, none |-> FALSE]

RECURSIVE Flatten(_)
\* the concatenation of a sequence of sequences
Flatten(seqs) == IF Len(seqs) = 0 THEN << >> ELSE Head(seqs) \o Flatten(Tail(seqs))

\* the stripped texts of the <loc> children of el that have a text
LocTexts(el) ==
  LET locs == SelectSeq(el.children, LAMBDA c : strip_ns(c.tag) = "loc" /\ c.text # "")
  IN  [k \in 1..Len(locs) |-> Strip(locs[k].text)]

\* lines 149-153 and 174-178: the locations the two nested loops visit, in
\* document order: the <loc> texts of the children of root tagged name
LocsOf(root, name) ==
  LET els == SelectSeq(root.children, LAMBDA c : strip_ns(c.tag) = name)
  IN  Flatten([k \in 1..Len(els) |-> LocTexts(els[k])])

RECURSIVE MergeAppend(_, _)
\* a merge that appends every URL of the child
MergeAppend(acc, more) ==
  IF Len(more) = 0 THEN acc ELSE MergeAppend(Append(acc, Head(more)), Tail(more))

RECURSIVE MergeUrls(_, _)
\* lines 162-165 and 179-181: append the URLs not yet in the list, in order
MergeUrls(acc, more) ==
  IF Len(more) = 0 THEN acc
  ELSE IF \E k \in 1..Len(acc) : acc[k] = Head(more)
       THEN MergeUrls(acc, Tail(more))
       ELSE MergeUrls(Append(acc, Head(more)), Tail(more))

\* the guard of line 154 without its look at the visited set
ShouldRecurseWithinDepth(depth, child_url, visited) ==
  depth + 1 <= MAX_DEPTH

\* the guard of line 154 with the depth of the caller compared to the bound
ShouldRecurseOffByOne(depth, child_url, visited) ==
  depth <= MAX_DEPTH /\ child_url \notin visited

\* line 154: whether the index loop resolves child_url
ShouldRecurse(depth, child_url, visited) ==
  depth + 1 <= MAX_DEPTH /\ child_url \notin visited

(***************************************************************************)
(* The site: what a fetch of a sitemap URL can obtain. A "chain" site has  *)
(* the most sitemaps and its indexes have one child or none; the indexes   *)
(* of a "wide" site list several sitemaps, none of them twice; an "odd"    *)
(* site has two sitemaps and serves the documents that are out of the      *)
(* ordinary; a "fork" site has five sitemaps, of which the last is listed  *)
(* by the first index next to a chain of indexes and by the end of that    *)
(* chain.                                                                  *)
(***************************************************************************)
Sites == {"chain", "wide", "odd", "fork"}

NS == "{http://www.sitemaps.org/schemas/sitemap/0.9}"

SitemapUrl(k) == "https://site.example/sitemap" \o Str(k) \o ".xml"

SitemapUrls(site) ==
  IF site = "chain" THEN { SitemapUrl(k) : k \in 1..NumSitemaps }
  ELSE IF site = "wide" THEN { SitemapUrl(k) : k \in 1..WideSitemaps }
  ELSE IF site = "fork"
    THEN { SitemapUrl(1), SitemapUrl(2), SitemapUrl(3), SitemapUrl(4), SitemapUrl(5) }
  ELSE { SitemapUrl(1), SitemapUrl(2) }

Page(k) == "https://site.example/page" \o Str(k)

\* <urlset> with one <url><loc>..</loc><lastmod>..</lastmod></url> per entry
UrlsetDoc(ns, locs) ==
  El(ns \o "urlset", "",
     [k \in 1..Len(locs) |->
        El(ns \o "url", "", << El(ns \o "loc", locs[k], << >>),
                               El(ns \o "lastmod", "2026-01-01", << >>) >>)])

\* <sitemapindex> with one <sitemap><loc>..</loc></sitemap> per entry
IndexDoc(ns, locs) ==
  El(ns \o "sitemapindex", "",
     [k \in 1..Len(locs) |-> El(ns \o "sitemap", "", << El(ns \o "loc", locs[k], << >>) >>)])

\* the child lists of the index documents of a site
IndexLists(site) ==
  IF site = "chain"
    THEN { << >> } \cup { << u >> : u \in SitemapUrls(site) }
  ELSE IF site = "wide"
    THEN { locs \in UNION { [1..n -> SitemapUrls(site)] : n \in 0..MaxChildren } :
             \A i, j \in 1..Len(locs) : i # j => locs[i] # locs[j] }
  ELSE IF site = "fork"
    THEN { << SitemapUrl(2), SitemapUrl(5) >>, << SitemapUrl(3) >>, << SitemapUrl(4) >>,
           << SitemapUrl(5) >> }
  ELSE { << SitemapUrl(1), SitemapUrl(2) >>,
         << SitemapUrl(1), SitemapUrl(1), SitemapUrl(2) >> }

\* an index with a <url> entry, a <sitemap> whose <loc> is empty, a padded
\* location and a <sitemap> with two <loc> children
OddIndex ==
  El("sitemapindex", "",
     << El("url", "", << El("loc", SitemapUrl(1), << >>) >>),
        El("sitemap", "", << El("loc", "", << >>) >>),
        El("sitemap", "", << El("lastmod", "2026-01-01", << >>),
                             El("loc", "\n  " \o SitemapUrl(2) \o "  ", << >>),
                             El("loc", SitemapUrl(1), << >>) >>) >>)

U12 == UrlsetDoc(NS, << Page(1), Page(2) >>)
U23 == UrlsetDoc(NS, << Page(2), Page(3) >>)
U34 == UrlsetDoc(NS, << Page(3), Page(4) >>)

Payloads(site) ==
  { Plain(IndexDoc(NS, locs)) : locs \in IndexLists(site) }
    \cup { Plain(U12) }
    \cup (IF site = "wide" THEN { Plain(U23), Plain(U34) } ELSE {})
    \cup (IF site = "odd"
          THEN { Plain(UrlsetDoc("", << Page(1), Page(2), " " \o Page(1) \o "\n", Page(3) >>)),
                 Plain(OddIndex),
                 Plain(El("html", "", << >>)),
                 Bytes(BOM \o << LT >>, "none", << >>, "tree", U23),
                 Bytes(GZIP_MAGIC, "valid", << LT >>, "tree", U34),
                 Bytes(GZIP_MAGIC, "corrupt", << >>, "garbage", NoElement),
                 Bytes(<< LT >>, "none", << >>, "garbage", NoElement),
                 Bytes(<< >>, "none", << >>, "empty", NoElement) }
          ELSE {})

\* what a fetch from a site of this kind can obtain
OutcomesOf(site) ==
  { [ok |-> TRUE, raw |-> raw, exc |-> ""] : raw \in Payloads(site) }
    \cup { [ok |-> FALSE, raw |-> Plain(NoElement), exc |-> e] :
             e \in IF site = "odd" THEN {"ConnectError", "HTTPStatusError"}
                   ELSE {"ConnectError"} }

\* the sources a caller with a site of this kind can give
SourcesOf(site) ==
  { [bytes |-> FALSE, url |-> u, raw |-> Plain(NoElement)] :
      u \in {SitemapUrl(1), "  " \o SitemapUrl(1) \o "\n"} }
    \cup { [bytes |-> TRUE, url |-> "", raw |-> raw] : raw \in Payloads(site) }

\* lines 124-141, 149-153 and 174-178: what parse_sitemap reads in raw bytes:
\* whether decompression raises, whether the parser raises, whether it gives
\* no tree, the tag of the root, and the locations the loops will visit
ReadBytes(raw) ==
  LET d == decompress_if_gz(raw)
      p == parse_xml(d.data)
      root_tag == strip_ns(p.root.tag)
  IN  [raised |-> d.raised,
       error |-> ~d.raised /\ p.raised,
       none |-> ~d.raised /\ p.none,
       root_tag |-> root_tag,
       locs |-> IF root_tag = "sitemapindex" THEN LocsOf(p.root, "sitemap")
                ELSE IF root_tag = "urlset" THEN LocsOf(p.root, "url")
                ELSE << >>]

\* ReadBytes, tabulated over the documents of the sites
Read == [raw \in UNION { Payloads(site) : site \in Sites } |-> ReadBytes(raw)]

\* OutcomesOf and SourcesOf, tabulated
Outcomes == [site \in Sites |-> OutcomesOf(site)]
Uploads == [site \in Sites |-> SourcesOf(site)]

\* httpx.get(url) followed by raise_for_status(): the content, or the failure
FetchOutcomes(site) == Outcomes[site]

\* the sources the top-level call is given: a URL, or the bytes of an upload
Sources(site) == Uploads[site]

(***************************************************************************)
(* parse_sitemap. The recursion is a stack of frames, one per call that    *)
(* iterates over a sitemap index: the URL it was called with ("" for       *)
(* bytes), its _depth, the child locations its loops have still to visit,  *)
(* and its local list urls.                                                *)
(***************************************************************************)
Frame(url, depth, todo) == [url |-> url, depth |-> depth, todo |-> todo, urls |-> << >>]

\* the resolution as one value
Resolution ==
  [pc |-> sm_pc, stack |-> sm_stack, visited |-> sm_visited, result |-> sm_result,
   log |-> sm_log, calls |-> sm_calls, refs |-> sm_refs, seen |-> sm_seen]

Top(st) == st.stack[Len(st.stack)]

Callback(st, msg) == [st EXCEPT !.log = Append(@, msg)]

\* the loops of a frame that never move on to the next location
RemainingSame(todo) == todo

\* lines 149 and 151: the loops move on to the next location
Remaining(todo) == Tail(todo)

\* a call returns value: the top-level caller receives it, or the index loop
\* of the calling frame merges it into its urls (lines 162-165)
Return(st, value) ==
  IF Len(st.stack) = 0
  THEN [st EXCEPT !.pc = "returned", !.result = value]
  ELSE [st EXCEPT !.stack[Len(st.stack)].urls = MergeUrls(@, value)]

\* an exception leaves every active call: no call site catches it
Raise(st) == [st EXCEPT !.pc = "raised", !.stack = << >>]

\* lines 124-187: from the raw bytes to the return, or to the index loop. The
\* messages are the code's, in 7-bit characters: "-" stands for U+2013, and
\* the warning sign that opens the last message is left out.
Resolve(st, url, depth, raw) ==
  LET read == Read[raw]
  IN  IF read.raised THEN Raise(st)
      ELSE IF read.error
        THEN Return(Callback(st, "XML parse error: Document is empty"), << >>)
      ELSE IF read.none
        THEN Return(Callback(st, "XML parse returned empty document - check the sitemap source."), << >>)
      ELSE IF read.root_tag = "sitemapindex"
        THEN [st EXCEPT !.stack = Append(@, Frame(url, depth, read.locs))]
      ELSE IF read.root_tag = "urlset"
        THEN Return([st EXCEPT !.seen = @ \o read.locs], MergeUrls(<< >>, read.locs))
      ELSE Return(Callback(st, "Unknown root element: <" \o read.root_tag \o ">"), << >>)

\* lines 101-122, then Resolve: one call parse_sitemap(source, _depth=depth)
\* whose fetch, if it makes one, has the outcome fetched
Call(st, source, depth, fetched) ==
  LET url == Strip(source.url)
      called == [st EXCEPT !.calls = Append(@, [url |-> IF source.bytes THEN "" ELSE url,
                                                depth |-> depth])]
      marked == Callback([called EXCEPT !.visited = @ \cup {url}], "Fetching " \o url)
  IN  IF source.bytes THEN Resolve(called, "", depth, source.raw)
      ELSE IF url \in st.visited THEN Return(called, << >>)
      ELSE IF ~fetched.ok
        THEN Return(Callback(marked, "Failed to fetch " \o url \o ": " \o fetched.exc), << >>)
      ELSE Resolve(marked, url, depth, fetched.raw)

\* an index loop that puts every location it looks at into the visited set
ChildMarked(st, fetched) ==
  LET frame == Top(st)
      child_url == Head(frame.todo)
      resolved == ShouldRecurse(frame.depth, child_url, st.visited)
      moved == [st EXCEPT !.stack[Len(st.stack)].todo = Remaining(@),
                          !.refs = @ \cup {[parent |-> frame.url, depth |-> frame.depth,
                                            child |-> child_url,
                                            fresh |-> child_url \notin st.visited,
                                            resolved |-> resolved]}]
  IN  IF resolved THEN Call(moved, UrlSource(child_url), frame.depth + 1, fetched)
      ELSE [moved EXCEPT !.visited = @ \cup {child_url}]

\* lines 153-161: the index loop of the top frame is at its next location
Child(st, fetched) ==
  LET frame == Top(st)
      child_url == Head(frame.todo)
      resolved == ShouldRecurse(frame.depth, child_url, st.visited)
      moved == [st EXCEPT !.stack[Len(st.stack)].todo = Remaining(@),
                          !.refs = @ \cup {[parent |-> frame.url, depth |-> frame.depth,
                                            child |-> child_url,
                                            fresh |-> child_url \notin st.visited,
                                            resolved |-> resolved]}]
  IN  IF resolved THEN Call(moved, UrlSource(child_url), frame.depth + 1, fetched)
      ELSE moved

\* line 166: the loops of the top frame are over
ReturnUrls(st) == Return([st EXCEPT !.stack = SubSeq(@, 1, Len(@) - 1)], Top(st).urls)

Becomes(st) ==
  /\ sm_pc' = st.pc
  /\ sm_stack' = st.stack
  /\ sm_visited' = st.visited
  /\ sm_result' = st.result
  /\ sm_log' = st.log
  /\ sm_calls' = st.calls
  /\ sm_refs' = st.refs
  /\ sm_seen' = st.seen
  /\ UNCHANGED << sm_site, checker_vars, store_vars >>

\* the step makes no fetch
NoFetchMade == UNCHANGED sm_fetched

Running(st) == IF st.pc = "idle" THEN [st EXCEPT !.pc = "running"] ELSE st

\* the caller's parse_sitemap(source) with an upload's bytes
ParseBytes ==
  /\ sm_pc = "idle"
  /\ \E source \in Sources(sm_site) :
       /\ source.bytes
       /\ sm_source' = source
       /\ NoFetchMade
       /\ \E st \in {Call(Running(Resolution), source, 0, NoFetch)} : Becomes(st)

\* the caller's parse_sitemap(source) with a URL
ParseUrl ==
  /\ sm_pc = "idle"
  /\ \E source \in Sources(sm_site), fetched \in FetchOutcomes(sm_site) :
       /\ ~source.bytes
       /\ sm_source' = source
       /\ sm_fetched' = fetched
       /\ \E st \in {Call(Running(Resolution), source, 0, fetched)} : Becomes(st)

\* the index loop resolves its next child
ResolveChild ==
  /\ sm_pc = "running"
  /\ Len(sm_stack) > 0
  /\ Len(Top(Resolution).todo) > 0
  /\ ShouldRecurse(Top(Resolution).depth, Head(Top(Resolution).todo), sm_visited)
  /\ \E fetched \in FetchOutcomes(sm_site) :
       /\ sm_fetched' = fetched
       /\ UNCHANGED sm_source
       /\ \E st \in {Child(Resolution, fetched)} : Becomes(st)

\* the index loop passes over its next child
SkipChild ==
  /\ sm_pc = "running"
  /\ Len(sm_stack) > 0
  /\ Len(Top(Resolution).todo) > 0
  /\ ~ShouldRecurse(Top(Resolution).depth, Head(Top(Resolution).todo), sm_visited)
  /\ NoFetchMade
  /\ UNCHANGED sm_source
  /\ \E st \in {Child(Resolution, NoFetch)} : Becomes(st)

\* an index call returns its urls
ReturnIndex ==
  /\ sm_pc = "running"
  /\ Len(sm_stack) > 0
  /\ Len(Top(Resolution).todo) = 0
  /\ NoFetchMade
  /\ UNCHANGED sm_source
  /\ \E st \in {ReturnUrls(Resolution)} : Becomes(st)

\* no URL check is under way
CheckerIdle ==
  /\ urls = << >>
  /\ concurrency = 1
  /\ retries = 0
  /\ head_then_get = FALSE
  /\ safari_retry = FALSE
  /\ ua_label = "Chrome macOS (default)"
  /\ full = FALSE
  /\ sem_value = 1
  /\ sem_waiters = << >>
  /\ task = << >>
  /\ done_count = 0
  /\ ticks = << >>
  /\ run_pc = "idle"
  /\ results = << >>

SitemapInit ==
  /\ CheckerIdle
  /\ StoreIdle
  /\ sm_site \in Sites
  /\ sm_source = NoSource
  /\ sm_fetched = NoFetch
  /\ sm_pc = "idle"
  /\ sm_stack = << >>
  /\ sm_visited = {}
  /\ sm_result = << >>
  /\ sm_log = << >>
  /\ sm_calls = << >>
  /\ sm_refs = {}
  /\ sm_seen = << >>

SitemapNext ==
  \/ ParseBytes
  \/ ParseUrl
  \/ ResolveChild
  \/ SkipChild
  \/ ReturnIndex

SitemapSpec == SitemapInit /\ [][SitemapNext]_vars

\* each step of the sequential resolver is eventually taken
SitemapFairSpec == SitemapSpec /\ WF_vars(SitemapNext)

(***************************************************************************)
(* Properties of the sitemap resolver.                                     *)
(***************************************************************************)
\* the top-level call of parse_sitemap is over: it returned, or it raised
Terminated == sm_pc \in {"returned", "raised"}

\* C3: parse_sitemap always terminates, whatever finite set of documents the
\* site serves - an index that references itself and indexes that reference
\* each other included - provided each fetch returns or fails.
C3_ResolutionTerminates == <>Terminated

\* a resolution that returned after it met an index that lists itself and two
\* indexes that list each other
C3_Witness ==
  /\ sm_pc = "returned"
  /\ \E r \in sm_refs : r.parent # "" /\ r.child = r.parent
  /\ \E r, q \in sm_refs :
       /\ r.parent # "" /\ r.child # r.parent
       /\ q.parent = r.child /\ q.child = r.parent
       /\ r.resolved /\ ~q.resolved

\* C4: no call of parse_sitemap is made with a depth greater than 3: the
\* child of an index at depth d is resolved only if d + 1 <= 3, so a child of
\* a document at depth 3 is never fetched.
C4_DepthBound ==
  /\ \A k \in 1..Len(sm_calls) : sm_calls[k].depth <= 3
  /\ \A r \in sm_refs : r.resolved => r.depth + 1 <= 3
  /\ \A r \in sm_refs : r.depth = 3 => ~r.resolved

\* a resolution that returned, in which an index at depth 3 lists a sitemap
\* that was not visited, and which was not fetched
C4_Witness ==
  /\ sm_pc = "returned"
  /\ \E r \in sm_refs :
       /\ r.depth = 3 /\ r.fresh /\ ~r.resolved
       /\ r.child \notin sm_visited
       /\ \A k \in 1..Len(sm_calls) : sm_calls[k].url # r.child

\* the position of the first occurrence of x in seq
FirstIndex(seq, x) ==
  CHOOSE k \in 1..Len(seq) : seq[k] = x /\ \A h \in 1..(k - 1) : seq[h] # x

\* list holds each location of seen once, in the order of first occurrence
FirstSeenOrder(list, seen) ==
  /\ \A i, j \in 1..Len(list) : i # j => list[i] # list[j]
  /\ { list[i] : i \in 1..Len(list) } = { seen[k] : k \in 1..Len(seen) }
  /\ \A i, j \in 1..Len(list) :
       i < j => FirstIndex(seen, list[i]) < FirstIndex(seen, list[j])

\* C5: the list the top-level call returns has no duplicate, and holds the
\* page locations in the order in which the depth-first traversal, children
\* in document order, first read them.
C5_FirstSeenOrder == sm_pc = "returned" => FirstSeenOrder(sm_result, sm_seen)

\* an index of two urlsets that share a page: the shared page is listed once,
\* where the first child has it
C5_Witness ==
  /\ sm_pc = "returned"
  /\ Len(sm_calls) = 3
  /\ sm_seen = << Page(1), Page(2), Page(2), Page(3) >>
  /\ sm_result = << Page(1), Page(2), Page(3) >>

\* Scenario A: a urlset with three unique locations and one duplicate
ScenarioA ==
  /\ sm_pc = "returned"
  /\ Len(sm_calls) = 1
  /\ sm_seen = << Page(1), Page(2), Page(1), Page(3) >>

\* Scenario B: an index of two urlsets with two unique locations each
ScenarioB ==
  /\ sm_pc = "returned"
  /\ Len(sm_calls) = 3
  /\ sm_seen = << Page(1), Page(2), Page(3), Page(4) >>

\* the page locations of a list, as a set
Members(list) == { list[k] : k \in 1..Len(list) }

\* C14 as stated: a node whose fetch fails, whose bytes cannot be parsed or
\* whose root is unknown does not abort the resolution: the top-level call never
\* ends by an exception, and what it returns holds every page location read
\* from the other nodes.
C14_FailuresNotFatal ==
  /\ sm_pc # "raised"
  /\ sm_pc = "returned" => Members(sm_seen) \subseteq Members(sm_result)

\* the resolution was aborted after the page locations of an earlier sibling
\* had been read
C14_SiblingsLost ==
  /\ sm_pc = "raised"
  /\ Len(sm_calls) = 3
  /\ sm_seen = << Page(1), Page(2) >>
  /\ sm_result = << >>

\* C15: the progress callback of a run over N URLs is called once per
\* completed URL, the k-th call with (k, N): the counts are 1, 2, ... in
\* increasing order without gap or repetition, the total is N in every call,
\* and when the run has returned there have been exactly N calls.
C15_ProgressCounts ==
  /\ \A k \in 1..Len(ticks) : ticks[k] = << k, Len(urls) >>
  /\ Len(ticks) = Cardinality({ i \in Tasks : task[i].pc = "done" })
  /\ Returned => Len(ticks) = Len(urls)

\* two URLs checked side by side, the first one failing: two calls, (1, 2)
\* then (2, 2)
C15_Witness ==
  /\ Returned
  /\ concurrency = 2
  /\ Len(urls) = 2
  /\ results[1].error # ""
  /\ ticks = << << 1, 2 >>, << 2, 2 >> >>

\* C16: the requests of one URL are strictly sequential.  A request is sent
\* only when every earlier request of the URL has been answered or has failed,
\* so at most one is in flight; a new attempt begins only after the previous
\* attempt failed; and the probe of the alternate identity is sent only after
\* the primary probe was answered (with 403 or 404), with no primary request
\* after it.
C16_Sequential ==
  \A i \in Tasks :
    LET w == task[i].wire
    IN  /\ \A k \in 1..(Len(w) - 1) : w[k].status # PENDING
        /\ (i \in InFlight) <=> (w # << >> /\ w[Len(w)].status = PENDING)
        /\ \A k \in 2..Len(w) :
             (w[k].identity = "primary" /\ ~FollowsHead(i, k))
               => (w[k - 1].identity = "primary" /\ w[k - 1].status = RAISED)
        /\ \A k \in 1..Len(w) :
             w[k].identity = "alt"
               => /\ \E j \in 1..(k - 1) :
                       w[j].identity = "primary" /\ w[j].status \in {403, 404}
                  /\ \A j \in k..Len(w) : w[j].identity = "alt"

\* a first attempt that fails, a second one answered 404 by HEAD and by GET,
\* then the alternate identity: five requests, one after the other
C16_Witness ==
  /\ Returned
  /\ [ k \in 1..Len(task[1].wire) |->
         << task[1].wire[k].identity, task[1].wire[k].method, task[1].wire[k].status >> ]
       = << << "primary", "HEAD", RAISED >>,
            << "primary", "HEAD", 404 >>,
            << "primary", "GET", 404 >>,
            << "alt", "HEAD", 404 >>,
            << "alt", "GET", 200 >> >>

\* the most requests one URL can cause under the settings of the run
RequestBound ==
  IF head_then_get THEN 2 * (retries + 1) + 2 ELSE (retries + 1) + 1

\* C17: the number of requests sent for one URL never exceeds
\* 2 * (retries + 1) + 2 with HEAD-then-GET enabled and (retries + 1) + 1 with
\* it disabled.
C17_RequestBound ==
  \A i \in Tasks : task[i].requests <= RequestBound

\* the bound is met with one retry and HEAD-then-GET: a HEAD and a failing GET,
\* a HEAD and a GET answered 403 or 404, then the two requests of the alternate
\* identity
C17_Witness ==
  /\ Returned
  /\ head_then_get
  /\ retries = 1
  /\ task[1].attempts = 2
  /\ task[1].requests = 6
  /\ results[1].alt_user_agent_used = "Safari macOS"

\* the bound without HEAD-then-GET is met as well
C17_MetWithoutHead ==
  /\ Returned
  /\ ~head_then_get
  /\ retries = 1
  /\ task[1].requests = 3

\* the kinds of failure in the order of their priority
ErrorKinds == << "SSL_ERROR", "TIMEOUT", "DNS_ERROR", "CONNECT_ERROR", "READ_ERROR" >>

\* the test of each kind taken by itself (lines 91, 93, 95, 97 and 99)
Matches(kind, exc) ==
  LET name == Lower(exc.name)
      msg  == Lower(exc.msg)
  IN  CASE kind = "SSL_ERROR"     -> Contains(name, "ssl") \/ Contains(msg, "ssl")
        [] kind = "TIMEOUT"       -> Contains(name, "timeout") \/ Contains(msg, "timeout")
        [] kind = "DNS_ERROR"     -> \/ Contains(msg, "dns")
                                     \/ Contains(msg, "name or service not known")
                                     \/ Contains(msg, "nodename nor servname")
        [] kind = "CONNECT_ERROR" -> Contains(name, "connect") \/ Contains(msg, "connect")
        [] kind = "READ_ERROR"    -> Contains(name, "read")

\* the positions in ErrorKinds of the kinds a failure matches
Matching(exc) == { k \in 1..Len(ErrorKinds) : Matches(ErrorKinds[k], exc) }

\* C18: the label of a failure is the one of the earliest kind it matches in
\* the order SSL_ERROR, TIMEOUT, DNS_ERROR, CONNECT_ERROR, READ_ERROR, whatever
\* later kinds it matches as well, and the generic label with the type's name
\* when it matches none: one label for each failure.
C18_FirstMatchWins ==
  \A i \in Tasks :
    (task[i].pc = "done" /\ task[i].result.error # "")
      => LET exc == task[i].last_exc
             label == task[i].result.error
         IN  IF Matching(exc) = {}
             THEN label = "ERROR (" \o exc.name \o ")"
             ELSE \E k \in Matching(exc) :
                    /\ label = ErrorKinds[k]
                    /\ \A j \in Matching(exc) : k <= j

\* a failed certificate check raised as a connection error matches two kinds
\* and is an SSL_ERROR
C18_Witness ==
  /\ Returned
  /\ Matching(task[1].last_exc) = {1, 4}
  /\ results[1].error = "SSL_ERROR"

\* a read timeout matches TIMEOUT and READ_ERROR and is a TIMEOUT
C18_TimeoutBeforeRead ==
  /\ Returned
  /\ Matching(task[1].last_exc) = {2, 5}
  /\ results[1].error = "TIMEOUT"

\* the URLs a fetch was issued for, in the order of the fetches: each fetch is
\* announced by a "Fetching <url>" message (lines 108-109)
Fetches ==
  LET RECURSIVE Of(_)
      Of(log) == IF log = << >> THEN << >>
                 ELSE IF Prefix(Head(log), 9) = "Fetching "
                   THEN << SubSeq(Head(log), 10, Len(Head(log))) >> \o Of(Tail(log))
                 ELSE Of(Tail(log))
  IN  Of(sm_log)

\* C20: within one resolution each sitemap URL is fetched at most once: no URL
\* occurs twice among the fetches, every fetched URL is in the visited set and
\* the visited set holds nothing else, a call made for a URL leads to at most
\* one fetch, and no index loop resolves a child location that was in the
\* visited set.
C20_FetchedOnce ==
  /\ \A j, k \in 1..Len(Fetches) : Fetches[j] = Fetches[k] => j = k
  /\ sm_visited = Members(Fetches)
  /\ Len(Fetches) <= Cardinality({ k \in 1..Len(sm_calls) : sm_calls[k].url # "" })
  /\ \A r \in sm_refs : r.resolved => r.fresh

\* a resolution that fetched two sitemaps and met a child location, within
\* the depth bound, that had been visited: it was passed over
C20_Witness ==
  /\ sm_pc = "returned"
  /\ Len(Fetches) >= 2
  /\ \E r \in sm_refs : ~r.fresh /\ ~r.resolved /\ r.depth + 1 <= MAX_DEPTH

\* the URLs whose fetch failed, each announced by a "Failed to fetch <url>: "
\* message (line 121)
FailedFetches ==
  { u \in Members(Fetches) :
      \E k \in 1..Len(sm_log) :
        Prefix(sm_log[k], 18 + Len(u)) = "Failed to fetch " \o u \o ": " }

\* C28: a sitemap URL whose fetch failed stays in the visited set and is
\* fetched once, whichever index lists it afterwards; a child location that an
\* index loop passes over because of the depth bound alone is not put into
\* the visited set, which holds the fetched URLs and nothing else, so that a
\* location is resolved exactly when it is within the depth bound and was not
\* visited, whatever was passed over before.
C28_VisitedIsFetched ==
  /\ FailedFetches \subseteq sm_visited
  /\ \A u \in FailedFetches :
       Cardinality({ k \in 1..Len(Fetches) : Fetches[k] = u }) = 1
  /\ sm_visited = Members(Fetches)
  /\ \A r \in sm_refs : r.resolved <=> (r.fresh /\ r.depth + 1 <= MAX_DEPTH)
  /\ \A r \in sm_refs : (r.fresh /\ ~r.resolved /\ r.child \notin Members(Fetches))
                          => r.child \notin sm_visited

\* the last sitemap is passed over at the end of the chain, beyond the depth
\* bound, and resolved afterwards as the second child of the first index
C28_Witness ==
  /\ sm_pc = "returned"
  /\ \E deep, shallow \in sm_refs :
       /\ deep.child = shallow.child
       /\ deep.depth = MAX_DEPTH /\ deep.fresh /\ ~deep.resolved
       /\ shallow.depth = 0 /\ shallow.fresh /\ shallow.resolved
  /\ sm_result = << Page(1), Page(2) >>

\* a sitemap whose fetch failed is listed again by another index and passed
\* over
C28_FailedNotRefetched ==
  /\ sm_pc = "returned"
  /\ \E first, later \in sm_refs :
       /\ first.child = later.child
       /\ first.parent # later.parent
       /\ first.resolved
       /\ ~later.fresh /\ ~later.resolved /\ later.depth + 1 <= MAX_DEPTH
       /\ first.child \in FailedFetches

(***************************************************************************)
(* run_store.py: the runs kept on disk.                                    *)
(***************************************************************************)
\* Python values handed to the store: None, and a dict as the sequence of its
\* (key, value) items
PyNone == [type |-> "NoneType", items |-> << >>]
PyDict(items) == [type |-> "dict", items |-> items]

\* truth value testing: None and the empty dict are false
Truthy(v) == v.type = "dict" /\ Len(v.items) > 0

\* json.dumps and json.loads on these values: None is null, a dict is an
\* object with the same members in the same order
json_dumps(v) ==
  IF v.type = "NoneType" THEN [json |-> "null", members |-> << >>]
  ELSE [json |-> "object", members |-> v.items]

json_loads(j) ==
  IF j.json = "null" THEN PyNone ELSE PyDict(j.members)

\* a number in two digits
Pad2(n) == IF n < 10 THEN "0" \o Str(n) ELSE Str(n)

\* the second a clock reading falls into
Second(now) == now \div TicksPerSecond

\* now.strftime("%Y%m%d_%H%M%S") and now.strftime("%Y-%m-%d %H:%M:%S")
run_id_of(now) == "20260220_1200" \o Pad2(Second(now))
timestamp_of(now) == "2026-02-20 12:00:" \o Pad2(Second(now))

\* what the callers pass to save_run
StoreSources == {"https://site.example/sitemap.xml", "uploaded.txt"}
Row(u, code) == PyDict(<< << "input_url", u >>, << "final_status_code", code >> >>)
StoreResults == { << >>, << Row("https://a.example/", "200") >> }
StoreSettings == { PyNone, PyDict(<< >>), PyDict(<< << "retries", 1 >> >>) }

\* the ids save_run can return
RunIds == { run_id_of(now) : now \in 0..MaxTicks }

\* lines 38-47: the text written to <run_id>.json
FileText(now, source, rows, settings) ==
  [ id        |-> run_id_of(now),
    timestamp |-> timestamp_of(now),
    source    |-> source,
    url_count |-> Len(rows),
    settings  |-> json_dumps(IF Truthy(settings) THEN settings ELSE PyDict(<< >>)),
    results   |-> [k \in 1..Len(rows) |-> json_dumps(rows[k])] ]

\* path.write_text: the file is created or replaced
Written(files, run_id, text) ==
  [r \in DOMAIN files \cup {run_id} |-> IF r = run_id THEN text ELSE files[r]]

\* path.unlink
Unlinked(files, run_id) == [r \in DOMAIN files \ {run_id} |-> files[r]]

\* load_run(run_id): the parsed file, or None
load_run(run_id) ==
  IF run_id \notin DOMAIN rs_files THEN PyNone
  ELSE LET text == rs_files[run_id]
       IN  [ type      |-> "dict",
             id        |-> text.id,
             timestamp |-> text.timestamp,
             source    |-> text.source,
             url_count |-> text.url_count,
             settings  |-> json_loads(text.settings),
             results   |-> [k \in 1..Len(text.results) |-> json_loads(text.results[k])] ]

Called(op, run_id, source, rows, settings) ==
  [op |-> op, id |-> run_id, source |-> source, results |-> rows, settings |-> settings]

\* save_run(source, results, settings)
SaveRun ==
  /\ Len(rs_calls) < MaxCalls
  /\ \E source \in StoreSources, rows \in StoreResults, settings \in StoreSettings :
       /\ rs_files' = Written(rs_files, run_id_of(rs_now),
                              FileText(rs_now, source, rows, settings))
       /\ rs_calls' = Append(rs_calls,
                             Called("save_run", run_id_of(rs_now), source, rows, settings))
  /\ UNCHANGED << rs_now, checker_vars, sitemap_vars >>

\* delete_run(run_id)
DeleteRun ==
  /\ Len(rs_calls) < MaxCalls
  /\ \E run_id \in RunIds :
       /\ rs_files' = IF run_id \in DOMAIN rs_files THEN Unlinked(rs_files, run_id)
                      ELSE rs_files
       /\ rs_calls' = Append(rs_calls, Called("delete_run", run_id, "", << >>, PyNone))
  /\ UNCHANGED << rs_now, checker_vars, sitemap_vars >>

\* time passes
ClockTick ==
  /\ rs_now < MaxTicks
  /\ rs_now' = rs_now + 1
  /\ UNCHANGED << rs_files, rs_calls, checker_vars, sitemap_vars >>

StoreInit == CheckerIdle /\ SitemapIdle /\ StoreIdle

StoreNext ==
  \/ SaveRun
  \/ DeleteRun
  \/ ClockTick

StoreSpec == StoreInit /\ [][StoreNext]_vars

\* call k is a save_run whose id has not been deleted since
Kept(k) ==
  /\ rs_calls[k].op = "save_run"
  /\ \A j \in (k + 1)..Len(rs_calls) :
       ~(rs_calls[j].op = "delete_run" /\ rs_calls[j].id = rs_calls[k].id)

\* C19 as stated: after any sequence of save_run and delete_run calls,
\* load_run(id), for every id that a save_run returned and that has not been
\* deleted since, returns the source, the settings and the results passed to
\* that save_run.
C19_LoadReturnsSaved ==
  \A k \in 1..Len(rs_calls) :
    Kept(k) => LET run == load_run(rs_calls[k].id)
               IN  /\ run.type = "dict"
                   /\ run.source = rs_calls[k].source
                   /\ run.settings = rs_calls[k].settings
                   /\ run.results = rs_calls[k].results

\* two runs saved within one second: both calls returned the same id, and it
\* loads the second run
C19_Overwritten ==
  /\ Len(rs_calls) = 2
  /\ rs_calls[1].op = "save_run" /\ rs_calls[2].op = "save_run"
  /\ rs_calls[1].id = rs_calls[2].id
  /\ Truthy(rs_calls[1].settings)
  /\ load_run(rs_calls[1].id).source # rs_calls[1].source

\* what the store does guarantee: an id loads the latest run saved under it
\* that has not been deleted since, with settings or {} for its settings
C19_LoadReturnsLatest ==
  \A k \in 1..Len(rs_calls) :
    (Kept(k) /\ \A j \in (k + 1)..Len(rs_calls) : ~(Kept(j) /\ rs_calls[j].id = rs_calls[k].id))
      => LET run == load_run(rs_calls[k].id)
         IN  /\ run.type = "dict"
             /\ run.source = rs_calls[k].source
             /\ run.settings = (IF Truthy(rs_calls[k].settings) THEN rs_calls[k].settings
                                ELSE PyDict(<< >>))
             /\ run.results = rs_calls[k].results

(***************************************************************************)
(* Further properties of the checker.                                      *)
(***************************************************************************)
\* the last request of task i was one of the alternate probe, and it raised
AltRaised(i) ==
  /\ task[i].wire # << >>
  /\ task[i].wire[Len(task[i].wire)].identity = "alt"
  /\ task[i].wire[Len(task[i].wire)].status = RAISED

\* the primary requests of task i that raised
PrimaryRaised(i) ==
  { k \in 1..Len(task[i].wire) :
      task[i].wire[k].identity = "primary" /\ task[i].wire[k].status = RAISED }

\* C21: a transport failure of the alternate probe is swallowed. The task ends
\* at once with the result of the primary probe, the two alternate fields and
\* the error empty; the failure is followed by no further primary attempt and
\* by no backoff sleep: the attempts made and the sleeps taken are those of
\* the primary failures.
C21_AltFailureSwallowed ==
  \A i \in Tasks :
    AltRaised(i)
      => /\ task[i].pc = "done"
         /\ task[i].result = Populate(CheckResult(task[i].url), task[i].resp, task[i].elapsed)
         /\ task[i].result.alt_status_code = ""
         /\ task[i].result.alt_user_agent_used = ""
         /\ task[i].result.error = ""
         /\ task[i].attempts = Cardinality(PrimaryRaised(i)) + 1
         /\ Len(task[i].sleeps) = Cardinality(PrimaryRaised(i))

\* the primary probe is answered 404 at its first attempt with a retry left,
\* the alternate HEAD is answered 404 as well and the alternate GET fails
C21_Witness ==
  /\ Returned
  /\ retries = 1
  /\ head_then_get
  /\ AltRaised(1)
  /\ Len(task[1].wire) = 4
  /\ task[1].attempts = 1
  /\ results[1].final_status_code = "404"
  /\ results[1].alt_status_code = ""

\* C22: the first primary attempt for which _do_request returns a response,
\* whatever its status, ends the attempt loop. Once the task holds a response
\* its attempt count never changes again and it is in the alternate probe or
\* done; a further attempt is only ever begun from a primary request that
\* raised (or from the sleep that follows one), with no response held; and the
\* alternate probe, once begun, is never begun again.
C22_ResponseEndsLoop ==
  [][\A i \in Tasks :
       /\ task[i].resp # NoResp
            => /\ task[i].pc \in {"alt_head", "alt_get", "done"}
               /\ task'[i].pc \in {"alt_head", "alt_get", "done"}
               /\ task'[i].attempts = task[i].attempts
               /\ task'[i].attempt = task[i].attempt
               /\ task'[i].resp = task[i].resp
       /\ (task'[i].attempts > task[i].attempts /\ task[i].attempts > 0)
            => /\ task[i].pc \in {"primary_head", "primary_get", "sleep"}
               /\ task'[i].resp = NoResp
               /\ task'[i].last_exc # NoExc
       /\ task[i].pc = "alt_head" => task'[i].pc \in {"alt_head", "alt_get", "done"}
       /\ task[i].pc = "alt_get" => task'[i].pc \in {"alt_get", "done"}
    ]_vars

\* a server error answered at the first attempt with a retry left: one
\* attempt is made
C22_Witness ==
  /\ Returned
  /\ retries = 1
  /\ task[1].attempts = 1
  /\ results[1].final_status_code = "500"
  /\ results[1].error = ""

\* C23: after the failed attempt with 0-based index k a backoff sleep is
\* taken if and only if k < retries. The sleeps of a task are those of its
\* failed attempts 0, 1, ... in this order, none for the attempt with index
\* retries; the sleep after attempt k lasts 0.5 * 2^k seconds plus a jitter of
\* at most 0.3 seconds (lengths are in tenths of a second); and the attempt
\* with index k + 1 is begun only when the sleep after attempt k is over.
C23_Backoff ==
  \A i \in Tasks :
    LET slept == task[i].sleeps
        failed == Cardinality(PrimaryRaised(i))
    IN  /\ Len(slept) = Min(failed, retries)
        /\ \A k \in 1..Len(slept) :
             /\ slept[k].attempt = k - 1
             /\ slept[k].backoff - 5 * (2 ^ (k - 1)) \in 0..3
        /\ task[i].pc = "sleep"
             => /\ task[i].attempts = Len(slept)
                /\ task[i].attempt = Len(slept) - 1
                /\ task[i].wire[Len(task[i].wire)].status = RAISED
        /\ task[i].pc # "sleep" /\ task[i].attempts > 0
             => task[i].attempts = Min(failed, retries) + 1

\* two retries, all three attempts fail: a sleep of 0.5 s and one of 1.3 s,
\* and none after the last attempt
C23_Witness ==
  /\ Returned
  /\ retries = 2
  /\ task[1].attempts = 3
  /\ results[1].error = "TIMEOUT"
  /\ task[1].sleeps = << [attempt |-> 0, backoff |-> 5], [attempt |-> 1, backoff |-> 13] >>

\* C24: if every request and every sleep eventually returns or fails, then
\* under fair scheduling every task that waits for a slot is eventually given
\* one, and the run eventually returns with every task done (each after at
\* least one attempt), every slot free and nobody waiting, whether the tasks
\* succeeded or exhausted their attempts.
C24_RunReturns ==
  /\ \A i \in 1..MaxUrls :
       (i \in Tasks /\ task[i].pc = "waiting") ~> (i \in Tasks /\ i \in Holding)
  /\ <>(/\ Returned
        /\ \A i \in Tasks : task[i].pc = "done" /\ task[i].attempts > 0
        /\ sem_value = concurrency
        /\ sem_waiters = << >>)

\* two URLs behind one slot, the first answered and the second out of
\* attempts: the run has returned and the slot is free
C24_Witness ==
  /\ Returned
  /\ Len(urls) = 2
  /\ concurrency = 1
  /\ retries = 0
  /\ results[1].error = ""
  /\ results[2].error # ""
  /\ sem_value = 1
  /\ sem_waiters = << >>

\* C25: whatever the order in which the tasks finish, the list _run returns
\* is in input order: its i-th entry is the result of the task of the i-th
\* URL and carries that URL; the progress ticks follow the order of
\* completion: the task that finished k-th caused the k-th tick.
C25_InputOrder ==
  /\ Returned
       => /\ Len(results) = Len(urls)
          /\ \A i \in Tasks :
               /\ results[i].input_url = urls[i]
               /\ results[i] = to_dict(task[i].result)
  /\ \A i \in Tasks :
       task[i].pc = "done"
         => /\ task[i].rank \in 1..Len(ticks)
            /\ ticks[task[i].rank] = << task[i].rank, Len(urls) >>
            /\ \A j \in Tasks : (task[j].pc = "done" /\ j # i) => task[j].rank # task[i].rank

\* the second URL finished first, and the first URL's result is first
C25_Witness ==
  /\ Returned
  /\ task[2].rank = 1
  /\ task[1].rank = 2
  /\ results[1].input_url = "https://a.example/"
  /\ results[2].input_url = "https://b.example/x"

\* the alternate probe of task i obtained a response that was promoted
Promoted(i) ==
  /\ task[i].pc = "done"
  /\ task[i].alt_resp # NoResp
  /\ task[i].alt_resp.status_code < 400

C27_HeadBelow400 ==
  \A i \in Tasks :
    (task[i].pc = "done" /\ task[i].result.error = "")
      => LET r == task[i].result
             status == FinalResp(i).status_code
         IN  /\ r.final_status_code = Str(status)
             /\ r.method_used \in {"HEAD", "GET"}
             /\ r.method_used = "HEAD" => (head_then_get /\ status < 400)
             /\ status >= 400 => r.method_used = "GET"
             /\ ~head_then_get => r.method_used = "GET"

\* the primary probe is answered 404 by HEAD and by GET, the alternate HEAD
\* 200: the promoted result is a HEAD result with status 200
C27_Witness ==
  /\ Returned
  /\ head_then_get
  /\ task[1].resp.method = "GET"
  /\ task[1].resp.status_code = 404
  /\ task[1].alt_resp.method = "HEAD"
  /\ results[1].method_used = "HEAD"
  /\ results[1].final_status_code = "200"
  /\ results[1].user_agent_used = "Safari macOS (retry)"

=============================================================================
